---- MODULE Spec2Model ----
(***************************************************************************)
(* Client-side auth state and route protection of rcm_trainer.             *)
(*                                                                         *)
(*   AuthProvider  (app/contexts/AuthContext): two hook states, user and   *)
(*                 loading, one onAuthStateChanged subscription, and the   *)
(*                 context value { user, loading, isAuthenticated }        *)
(*                 computed at each render.                                *)
(*   TemplatePage  (app/template): the route guard; reads the context      *)
(*                 value and the pathname, renders one of three views and  *)
(*                 runs a redirect effect with the dependency list         *)
(*                 [loading, routeAllowed, router].                        *)
(*                                                                         *)
(* A path is the sequence of its segments: "/" is << >>, "/home" is        *)
(* <<"home">>, "/home/x" is <<"home", "x">>.                               *)
(*                                                                         *)
(* React is modelled by what the code relies on: a state write is          *)
(* recorded in the hook state and becomes visible to consumers at the next *)
(* render; the provider and its context consumers render in one commit;    *)
(* the passive effects of a commit are flushed before the next render; an  *)
(* effect runs on mount and afterwards only when a dependency changed.     *)
(***************************************************************************)
EXTENDS Naturals, Sequences, FiniteSets

(* ------------------------------ bounds -------------------------------- *)

\* notifications of the identity provider that may be in flight
MaxQueue == 2
\* entries of the browser history that are kept (older ones are forgotten)
MaxHist == 2
\* saturation of the count of redirects issued for one input state
MaxCount == 3

(* ----------------------------- constants ------------------------------ *)

NoUser == "none"
Users == {"u1", "u2"}

Root == << >>
LoginPath == <<"login">>
SignupPath == <<"signup">>
HomePath == <<"home">>
HomeSubPath == <<"home", "x">>
AdminPath == <<"admin">>
Paths == {Root, LoginPath, SignupPath, HomePath, HomeSubPath, AdminPath}

\* const PUBLIC_ROUTES = ["/", "/login", "/signup"]
PUBLIC_ROUTES == {Root, LoginPath, SignupPath}

\* createContext default: { user: null, loading: true, isAuthenticated: false }
AuthContextDefault == [user |-> NoUser, loading |-> TRUE, isAuthenticated |-> FALSE]

VARIABLES
    fbUser,          \* identity provider: the signed-in user, or NoUser
    listeners,       \* identity provider: number of registered listeners
    notifQ,          \* identity provider: notifications in flight
    phase,           \* "unmounted", "mounted", "torndown"
    user,            \* AuthProvider hook state: useState<User | null>(null)
    loading,         \* AuthProvider hook state: useState<boolean>(true)
    hpc,             \* position in the onAuthStateChanged handler
    ctx,             \* the context value consumers read (useAuth)
    subPending,      \* AuthProvider's subscription effect awaits its flush
    history,         \* browser history; its last entry is the current path
    pendingNav,      \* router call issued and not yet applied (at most one)
    view,            \* what TemplatePage rendered last
    deps,            \* [loading, routeAllowed] of TemplatePage's last render
    effectPending,   \* TemplatePage's redirect effect awaits its flush
    effectRan,       \* the last step ran TemplatePage's redirect effect
    emitted,         \* the router calls the last step made
    rendered,        \* the last step was a render of AuthProvider and TemplatePage
    redirectsHere,   \* guard redirects since the guard's inputs last changed
    pageView,        \* what the page below TemplatePage rendered last
    pageEffectPending, \* SignupPage's redirect effect awaits its flush
    busy,            \* the mounted page's isLoading / isLoggingOut
    error,           \* the mounted form's error message
    inflight,        \* provider calls not yet settled, by operation and by
                     \* whether the page instance that made them is still mounted
    submitted,       \* the submission the last step handled, if it handled one
    settled,         \* the provider call the last step settled, if it settled one
    applied          \* the router call the last step applied, or << >>

vars == <<fbUser, listeners, notifQ, phase, user, loading, hpc, ctx, subPending,
          history, pendingNav, view, deps, effectPending, effectRan, emitted,
          rendered, redirectsHere, pageView, pageEffectPending, busy, error,
          inflight, submitted, settled, applied>>

fbVars == <<fbUser, listeners, notifQ>>
hookVars == <<user, loading>>
guardVars == <<view, deps, effectPending, redirectsHere>>
navVars == <<history, pendingNav>>
localVars == <<pageView, pageEffectPending, busy, error, inflight>>

NoStep == << >>

\* usePathname(): the current entry of the history
pathname == history[Len(history)]

\* the first-level segment, by which the router keys the root template
Segment(p) == IF p = << >> THEN "" ELSE Head(p)

(* ----------------------------- AuthProvider --------------------------- *)

\* a variant that derives isAuthenticated from the loading flag
ProviderValueFromLoading(u, l) == [user |-> u, loading |-> l, isAuthenticated |-> ~l]

\* value={{ user, loading, isAuthenticated: !!user }}
ProviderValue(u, l) == [user |-> u, loading |-> l, isAuthenticated |-> (u # NoUser)]

(* ----------------------------- TemplatePage --------------------------- *)

\* const isPublicRoute = PUBLIC_ROUTES.includes(pathname)
isPublicRoute(p) == p \in PUBLIC_ROUTES

\* a variant that turns signed-in users away from the public routes
routeAllowedGuestOnly(c, p) ==
    (isPublicRoute(p) /\ ~c.isAuthenticated) \/ (~isPublicRoute(p) /\ c.isAuthenticated)

\* const routeAllowed = isPublicRoute || isAuthenticated
routeAllowed(c, p) == isPublicRoute(p) \/ c.isAuthenticated

\* a variant without the early return on loading
TemplateRenderNoLoading(c, p) ==
    IF routeAllowed(c, p) THEN "Allowed" ELSE "RedirectingPlaceholder"

\* the three returns of TemplatePage, in the code's order
TemplateRender(c, p) ==
    IF c.loading THEN "Loading"
    ELSE IF routeAllowed(c, p) THEN "Allowed"
    ELSE "RedirectingPlaceholder"

\* the dependency list [loading, routeAllowed, router]; router is a stable reference
EffectDeps(c, p) == [loading |-> c.loading, routeAllowed |-> routeAllowed(c, p)]

\* a variant without the dependency list: the effect runs after every render
EffectScheduledAlways(remount, old, new) == TRUE

\* the effect re-runs on mount and when a dependency differs from the last render's
EffectScheduled(remount, old, new) == remount \/ old # new

\* a variant that does not wait for loading to end
RedirectEffectNoLoading(d) ==
    IF ~d.routeAllowed
    THEN << [by |-> "guard", kind |-> "replace", target |-> Root] >>
    ELSE << >>

\* a variant that redirects with router.push
RedirectEffectPush(d) ==
    IF ~d.loading /\ ~d.routeAllowed
    THEN << [by |-> "guard", kind |-> "push", target |-> Root] >>
    ELSE << >>

\* if (!loading && !routeAllowed) router.replace("/")
RedirectEffect(d) ==
    IF ~d.loading /\ ~d.routeAllowed
    THEN << [by |-> "guard", kind |-> "replace", target |-> Root] >>
    ELSE << >>

(* ------------------------- the page below the guard ------------------- *)

\* the page TemplatePage's children stand for: rendered only when the guard
\* returns them
MountedPage(v, p) ==
    IF v # "Allowed" THEN "none"
    ELSE IF p = LoginPath THEN "login"
    ELSE IF p = SignupPath THEN "signup"
    ELSE IF p = HomePath THEN "home"
    ELSE "other"

page == MountedPage(view, pathname)

\* a variant of SignupPage that shows the form to signed-in users
SignupRenderNoRedirecting(c) ==
    IF c.loading THEN "Loading" ELSE "Form"

\* SignupPage: if (authLoading) Loading; if (isAuthenticated) Redirecting; the form
SignupRender(c) ==
    IF c.loading THEN "Loading"
    ELSE IF c.isAuthenticated THEN "Redirecting"
    ELSE "Form"

PageRender(pg, c) ==
    IF pg = "none" THEN "None"
    ELSE IF pg = "signup" THEN SignupRender(c)
    ELSE "Content"

\* SignupPage: if (!authLoading && isAuthenticated) router.push("/home")
SignupEffect(c) ==
    IF ~c.loading /\ c.isAuthenticated
    THEN << [by |-> "signupEffect", kind |-> "push", target |-> HomePath] >>
    ELSE << >>

Ops == {"signIn", "signUp", "signOut"}
CallKinds == [op : Ops, alive : BOOLEAN]
NoCalls == [k \in CallKinds |-> 0]
Live(op) == [op |-> op, alive |-> TRUE]
Dead(op) == [op |-> op, alive |-> FALSE]

\* the page instance is unmounted: its pending calls go on without it
Orphan(f) ==
    [k \in CallKinds |-> IF k.alive THEN 0 ELSE f[Dead(k.op)] + f[Live(k.op)]]

\* one render of the page below the guard; fresh is TRUE when a new instance
\* mounts, whose state starts from the useState initial values
RenderPage(c, p, fresh) ==
    LET pg == MountedPage(TemplateRender(c, p), p)
    IN /\ pageView' = PageRender(pg, c)
       /\ pageEffectPending' =
             /\ pg = "signup"
             /\ \/ fresh
                \/ c.loading # ctx.loading
                \/ c.isAuthenticated # ctx.isAuthenticated
       /\ busy' = IF fresh THEN FALSE ELSE busy
       /\ error' = IF fresh THEN "" ELSE error
       /\ inflight' = IF fresh THEN Orphan(inflight) ELSE inflight

\* one render of TemplatePage with context value c at path p; remount is TRUE
\* when the router mounts a new instance of the template
RenderGuard(c, p, remount) ==
    /\ view' = TemplateRender(c, p)
    /\ deps' = EffectDeps(c, p)
    /\ effectPending' = EffectScheduled(remount, deps, EffectDeps(c, p))
    /\ redirectsHere' =
          IF \/ remount
             \/ c.loading # ctx.loading
             \/ c.isAuthenticated # ctx.isAuthenticated
             \/ p # pathname
          THEN 0 ELSE redirectsHere
    /\ RenderPage(c, p, \/ remount
                        \/ p # pathname
                        \/ MountedPage(TemplateRender(c, p), p) # page)

(* ------------------------------ router -------------------------------- *)

\* history.pushState: a new entry; only the last MaxHist entries are kept
Push(h, p) == IF Len(h) < MaxHist THEN Append(h, p) ELSE Append(Tail(h), p)

\* history.replaceState: the current entry is overwritten
Replace(h, p) == [h EXCEPT ![Len(h)] = p]

ApplyCall(h, call) ==
    IF call.kind = "replace" THEN Replace(h, call.target) ELSE Push(h, call.target)

\* the root template is keyed by the first-level segment: a navigation that
\* changes it mounts a new TemplatePage, any other re-renders the same one
Remounts(from, to) == Segment(from) # Segment(to)

(* ------------------------- identity provider -------------------------- *)

\* a notification is queued for the registered listener, if there is one
Notify(q, n, u) == IF n > 0 THEN Append(q, u) ELSE q

\* onAuthStateChanged(auth, handler): registers the handler
Subscribe(n) == n + 1

\* a variant whose effect returns no cleanup
UnsubscribeMissing(n) == n

\* return () => unsubscribe()
Unsubscribe(n) == n - 1

(* ---------------------- onAuthStateChanged handler -------------------- *)

\* setUser(currentUser)
SetUserValue(currentUser) == currentUser

\* a variant that keeps loading while nobody is signed in
SetLoadingWhileSignedOut(currentUser) == currentUser = NoUser

\* setLoading(false)
SetLoadingValue(currentUser) == FALSE

\* a variant without batching: a render may follow each single write
RenderAllowedUnbatched == TRUE

\* State writes made in one callback are batched: React renders after the
\* handler has returned, never between its two writes.
RenderAllowed == hpc = "idle"

(* ------------------------------- Init --------------------------------- *)

Init ==
    /\ fbUser \in Users \cup {NoUser}
    /\ listeners = 0
    /\ notifQ = << >>
    /\ phase = "unmounted"
    /\ user = NoUser
    /\ loading = TRUE
    /\ hpc = "idle"
    /\ ctx = AuthContextDefault
    /\ subPending = FALSE
    /\ history \in {<<p>> : p \in Paths}
    /\ pendingNav = << >>
    /\ view = "None"
    /\ deps = [loading |-> TRUE, routeAllowed |-> TRUE]
    /\ effectPending = FALSE
    /\ effectRan = FALSE
    /\ emitted = << >>
    /\ rendered = FALSE
    /\ redirectsHere = 0
    /\ pageView = "None"
    /\ pageEffectPending = FALSE
    /\ busy = FALSE
    /\ error = ""
    /\ inflight = NoCalls
    /\ submitted = NoStep
    /\ settled = NoStep
    /\ applied = << >>

NoFormStep == submitted' = NoStep /\ settled' = NoStep

Quiet ==
    /\ effectRan' = FALSE
    /\ emitted' = << >>
    /\ rendered' = FALSE
    /\ NoFormStep
    /\ applied' = << >>

(* ------------------------------ actions ------------------------------- *)

\* first render of the tree: AuthProvider publishes its value, TemplatePage
\* renders under it, both effects are scheduled
MountApp ==
    /\ phase = "unmounted"
    /\ phase' = "mounted"
    /\ ctx' = ProviderValue(user, loading)
    /\ subPending' = TRUE
    /\ RenderGuard(ProviderValue(user, loading), pathname, TRUE)
    /\ Quiet
    /\ UNCHANGED <<fbVars, hookVars, hpc, navVars>>

\* the passive effects of the last commit: TemplatePage's redirect effect
\* (child first), then AuthProvider's subscription effect
FlushPassiveEffects ==
    /\ phase = "mounted"
    /\ hpc = "idle"
    /\ effectPending \/ subPending \/ pageEffectPending
    /\ LET pageCalls == IF pageEffectPending THEN SignupEffect(ctx) ELSE << >>
           calls == IF effectPending THEN RedirectEffect(deps) ELSE << >>
       IN /\ emitted' = pageCalls \o calls
          /\ effectRan' = effectPending
          /\ rendered' = FALSE
          /\ pendingNav' = IF calls # << >> THEN calls
                           ELSE IF pageCalls # << >> THEN pageCalls
                           ELSE pendingNav
          /\ redirectsHere' =
                IF calls # << >> /\ redirectsHere < MaxCount
                THEN redirectsHere + 1 ELSE redirectsHere
    /\ pageEffectPending' = FALSE
    /\ NoFormStep
    /\ applied' = << >>
    /\ IF subPending
       THEN /\ listeners' = Subscribe(listeners)
            /\ notifQ' = Notify(notifQ, Subscribe(listeners), fbUser)
       ELSE UNCHANGED <<listeners, notifQ>>
    /\ effectPending' = FALSE
    /\ subPending' = FALSE
    /\ UNCHANGED <<fbUser, phase, hookVars, hpc, ctx, history, view, deps,
                   pageView, busy, error, inflight>>

\* the subscription effect throws (a misconfigured identity provider): no
\* listener is registered, and the error unmounts the tree
SubscribeThrows ==
    /\ phase = "mounted"
    /\ hpc = "idle"
    /\ subPending
    /\ emitted' = (IF effectPending THEN RedirectEffect(deps) ELSE << >>)
    /\ effectRan' = effectPending
    /\ rendered' = FALSE
    /\ effectPending' = FALSE
    /\ subPending' = FALSE
    /\ phase' = "torndown"
    /\ view' = "None"
    /\ pendingNav' = << >>
    /\ pageView' = "None"
    /\ pageEffectPending' = FALSE
    /\ busy' = FALSE
    /\ error' = ""
    /\ inflight' = Orphan(inflight)
    /\ NoFormStep
    /\ applied' = << >>
    /\ UNCHANGED <<fbVars, hookVars, hpc, ctx, history, deps, redirectsHere>>

\* the handler's first write: setUser(currentUser)
HandlerSetUser ==
    /\ hpc = "idle"
    /\ listeners > 0
    /\ notifQ # << >>
    /\ hpc' = "afterSetUser"
    /\ user' = IF phase = "mounted" THEN SetUserValue(Head(notifQ)) ELSE user
    /\ Quiet
    /\ UNCHANGED <<fbVars, phase, loading, ctx, subPending, navVars, guardVars, localVars>>

\* the handler's second write: setLoading(false); the handler returns
HandlerSetLoading ==
    /\ hpc = "afterSetUser"
    /\ hpc' = "idle"
    /\ loading' = IF phase = "mounted" THEN SetLoadingValue(Head(notifQ)) ELSE loading
    /\ notifQ' = Tail(notifQ)
    /\ Quiet
    /\ UNCHANGED <<fbUser, listeners, phase, user, ctx, subPending, navVars, guardVars,
                   localVars>>

\* a render of AuthProvider and, in the same commit, of its consumer
\* TemplatePage: after a state write, or with nothing changed (a re-render)
Render ==
    /\ phase = "mounted"
    /\ RenderAllowed
    /\ ~effectPending /\ ~subPending /\ ~pageEffectPending
    /\ ctx' = ProviderValue(user, loading)
    /\ RenderGuard(ProviderValue(user, loading), pathname, FALSE)
    /\ effectRan' = FALSE
    /\ emitted' = << >>
    /\ rendered' = TRUE
    /\ NoFormStep
    /\ applied' = << >>
    /\ UNCHANGED <<fbVars, phase, hookVars, hpc, subPending, navVars>>

\* the router applies the pending call and renders the template at its target
ApplyNav ==
    /\ phase = "mounted"
    /\ hpc = "idle"
    /\ ~effectPending /\ ~subPending /\ ~pageEffectPending
    /\ pendingNav # << >>
    /\ LET call == Head(pendingNav)
       IN /\ history' = ApplyCall(history, call)
          /\ RenderGuard(ctx, call.target, Remounts(pathname, call.target))
    /\ pendingNav' = << >>
    /\ effectRan' = FALSE
    /\ emitted' = << >>
    /\ rendered' = FALSE
    /\ NoFormStep
    /\ applied' = pendingNav
    /\ UNCHANGED <<fbVars, phase, hookVars, hpc, ctx, subPending>>

\* the user follows a link: a push, which supersedes a pending navigation
UserNavigate(p) ==
    /\ phase = "mounted"
    /\ hpc = "idle"
    /\ ~effectPending /\ ~subPending /\ ~pageEffectPending
    /\ p # pathname
    /\ history' = Push(history, p)
    /\ pendingNav' = << >>
    /\ RenderGuard(ctx, p, Remounts(pathname, p))
    /\ Quiet
    /\ UNCHANGED <<fbVars, phase, hookVars, hpc, ctx, subPending>>

\* the user presses Back: the previous entry is restored, which supersedes a
\* pending navigation
UserBack ==
    /\ phase = "mounted"
    /\ hpc = "idle"
    /\ ~effectPending /\ ~subPending /\ ~pageEffectPending
    /\ Len(history) > 1
    /\ history[Len(history) - 1] # pathname
    /\ history' = SubSeq(history, 1, Len(history) - 1)
    /\ pendingNav' = << >>
    /\ RenderGuard(ctx, history[Len(history) - 1],
                   Remounts(pathname, history[Len(history) - 1]))
    /\ Quiet
    /\ UNCHANGED <<fbVars, phase, hookVars, hpc, ctx, subPending>>

\* the identity provider signs a user in (this tab or another)
SignIn(u) ==
    /\ hpc = "idle"
    /\ fbUser # u
    /\ Len(notifQ) < MaxQueue
    /\ fbUser' = u
    /\ notifQ' = Notify(notifQ, listeners, u)
    /\ Quiet
    /\ UNCHANGED <<listeners, phase, hookVars, hpc, ctx, subPending, navVars, guardVars,
                   localVars>>

\* the identity provider signs the user out, or the session expires
SignOut ==
    /\ hpc = "idle"
    /\ fbUser # NoUser
    /\ Len(notifQ) < MaxQueue
    /\ fbUser' = NoUser
    /\ notifQ' = Notify(notifQ, listeners, NoUser)
    /\ Quiet
    /\ UNCHANGED <<listeners, phase, hookVars, hpc, ctx, subPending, navVars, guardVars,
                   localVars>>

\* the identity provider notifies again with the same user (token refresh)
Refresh ==
    /\ hpc = "idle"
    /\ listeners > 0
    /\ fbUser # NoUser
    /\ Len(notifQ) < MaxQueue
    /\ notifQ' = Notify(notifQ, listeners, fbUser)
    /\ Quiet
    /\ UNCHANGED <<fbUser, listeners, phase, hookVars, hpc, ctx, subPending, navVars,
                   guardVars, localVars>>

\* the tree is torn down (unmount, or an error that unmounts it): the
\* effect's cleanup runs and deregisters the listener; notifications still in
\* flight find no listener
Unmount ==
    /\ phase = "mounted"
    /\ hpc = "idle"
    /\ ~effectPending /\ ~subPending /\ ~pageEffectPending
    /\ phase' = "torndown"
    /\ listeners' = Unsubscribe(listeners)
    /\ notifQ' = IF Unsubscribe(listeners) = 0 THEN << >> ELSE notifQ
    /\ view' = "None"
    /\ pendingNav' = << >>
    /\ pageView' = "None"
    /\ pageEffectPending' = FALSE
    /\ busy' = FALSE
    /\ error' = ""
    /\ inflight' = Orphan(inflight)
    /\ Quiet
    /\ UNCHANGED <<fbUser, hookVars, hpc, ctx, subPending, history, deps,
                   effectPending, redirectsHere>>

(* ------------------------- forms: pure parts -------------------------- *)

\* passwords are sequences of characters; the backquote, which a string of
\* this language cannot hold, is written by its name
UpperChars == {"A", "B", "C", "D", "E", "F", "G", "H", "I", "J", "K", "L", "M",
               "N", "O", "P", "Q", "R", "S", "T", "U", "V", "W", "X", "Y", "Z"}
SpecialChars == {"!", "@", "#", "$", "%", "^", "&", "*", "(", ")", "_", "+",
                 "-", "=", "[", "]", "{", "}", "|", ";", ":", "'", "\"", ",",
                 ".", "<", ">", "?", "/", "~", "backquote"}
MinPasswordLength == 8

HasChar(pw, set) == \E i \in 1..Len(pw) : pw[i] \in set

MsgTooShort == "Password must be at least 8 characters long"
MsgNoCapital == "Password must contain at least one capital letter"
MsgNoSpecial == "Password must contain at least one special character"

\* a variant that tests for the special character before the capital letter
validatePasswordSpecialFirst(password) ==
    IF Len(password) < MinPasswordLength THEN MsgTooShort
    ELSE IF ~HasChar(password, SpecialChars) THEN MsgNoSpecial
    ELSE IF ~HasChar(password, UpperChars) THEN MsgNoCapital
    ELSE ""

\* validatePassword: the error of the first failed check, "" when valid
validatePassword(password) ==
    IF Len(password) < MinPasswordLength THEN MsgTooShort
    ELSE IF ~HasChar(password, UpperChars) THEN MsgNoCapital
    ELSE IF ~HasChar(password, SpecialChars) THEN MsgNoSpecial
    ELSE ""

MsgLoginEmpty == "Please enter both email and password"
MsgSignupEmpty == "Please fill in all fields"
MsgMismatch == "Passwords do not match"

\* login onSubmit, validation: !email || !password
LoginValidate(email, password) ==
    IF email = "" \/ password = << >> THEN MsgLoginEmpty ELSE ""

\* a variant that does not compare the confirmation
SignupValidateNoConfirm(email, password, confirmPassword) ==
    IF email = "" \/ password = << >> \/ confirmPassword = << >> THEN MsgSignupEmpty
    ELSE validatePassword(password)

\* signup onSubmit, validation: empty field, mismatch, password policy
SignupValidate(email, password, confirmPassword) ==
    IF email = "" \/ password = << >> \/ confirmPassword = << >> THEN MsgSignupEmpty
    ELSE IF password # confirmPassword THEN MsgMismatch
    ELSE validatePassword(password)

\* what a provider call can settle with: "ok", an error with a code, or an
\* error without one
NoCode == "no-code"
KnownSignupCodes == {"auth/email-already-in-use", "auth/invalid-email",
                     "auth/operation-not-allowed", "auth/weak-password"}
OtherCodes == {"auth/network-request-failed"}
Failures == KnownSignupCodes \cup OtherCodes \cup {NoCode}
Outcomes(op) ==
    IF op = "signUp" THEN {"ok"} \cup Failures
    ELSE IF op = "signIn" THEN {"ok", NoCode} \cup OtherCodes
    ELSE {"ok"} \cup OtherCodes

MsgSignupGeneric == "Failed to create account. Please try again."
MsgLoginFailed == "Incorrect email or password"

\* a variant without the case for auth/weak-password
SignupErrorMessageNoWeak(code) ==
    IF code = "auth/email-already-in-use"
    THEN "This email is already registered. Please sign in instead."
    ELSE IF code = "auth/invalid-email"
    THEN "Invalid email address. Please check your email format."
    ELSE IF code = "auth/operation-not-allowed"
    THEN "Email/password authentication is not enabled. Please contact support."
    ELSE MsgSignupGeneric

\* signup onSubmit, catch: the switch on error.code, its default, and the
\* else branch for an error without a code
SignupErrorMessage(code) ==
    IF code = "auth/email-already-in-use"
    THEN "This email is already registered. Please sign in instead."
    ELSE IF code = "auth/invalid-email"
    THEN "Invalid email address. Please check your email format."
    ELSE IF code = "auth/operation-not-allowed"
    THEN "Email/password authentication is not enabled. Please contact support."
    ELSE IF code = "auth/weak-password"
    THEN "Password is too weak. Please ensure it meets all requirements."
    ELSE MsgSignupGeneric

\* login onSubmit, catch: one message for every failure
LoginErrorMessage(code) == MsgLoginFailed

PushBy(who, p) == << [by |-> who, kind |-> "push", target |-> p] >>

\* a variant of login onSubmit whose push follows the finally block
LoginSettleCallsAlways(outcome) == PushBy("login", HomePath)

\* login onSubmit after the await: router.push("/home") in the try block
LoginSettleCalls(outcome) ==
    IF outcome = "ok" THEN PushBy("login", HomePath) ELSE << >>

\* a variant of signup onSubmit whose push follows the finally block
SignupSettleCallsAlways(outcome) == PushBy("signup", HomePath)

\* signup onSubmit after the await: router.push("/home") in the try block
SignupSettleCalls(outcome) ==
    IF outcome = "ok" THEN PushBy("signup", HomePath) ELSE << >>

\* a variant of handleLogout without the push in the catch block
LogoutSettleCallsOnSuccess(outcome) ==
    IF outcome = "ok" THEN PushBy("logout", Root) ELSE << >>

\* handleLogout after the await: router.push("/") in try and in catch
LogoutSettleCalls(outcome) == PushBy("logout", Root)

SettleCalls(op, outcome) ==
    IF op = "signIn" THEN LoginSettleCalls(outcome)
    ELSE IF op = "signUp" THEN SignupSettleCalls(outcome)
    ELSE LogoutSettleCalls(outcome)

\* the message the catch block sets; handleLogout sets none
SettleError(op, outcome, old) ==
    IF outcome = "ok" \/ op = "signOut" THEN old
    ELSE IF op = "signIn" THEN LoginErrorMessage(outcome)
    ELSE SignupErrorMessage(outcome)

\* the provider's current user after the call: the account signed in or
\* created, nobody after a sign-out, unchanged after a failure
UserAfter(op, outcome, u, old) ==
    IF outcome # "ok" THEN old
    ELSE IF op = "signOut" THEN NoUser
    ELSE u

(* ------------------------- forms: inputs ------------------------------ *)

MaxCalls == 2

PwShort == <<"A", "!", "1">>
PwNoCapitalNoSpecial == <<"a", "b", "c", "d", "e", "f", "g", "1">>
PwNoSpecial == <<"A", "b", "c", "d", "e", "f", "g", "1">>
PwNoCapital == <<"a", "b", "c", "d", "e", "f", "!", "1">>
PwValid == <<"A", "b", "c", "d", "e", "f", "!", "1">>
Passwords == {<< >>, PwShort, PwNoCapitalNoSpecial, PwNoSpecial, PwNoCapital, PwValid}

\* what the user types into the login form
LoginInputs == {<<"", PwValid>>, <<"a@x.io", << >> >>, <<"a@x.io", PwNoCapitalNoSpecial>>,
                <<"a@x.io", PwValid>>}

\* what the user types into the signup form: no email, or an email with a
\* password confirmed by itself, by nothing or by another one
SignupInputs ==
    {<<"", PwValid, PwValid>>, <<"a@x.io", PwValid, << >> >>,
     <<"a@x.io", PwValid, PwNoSpecial>>}
    \cup {<<"a@x.io", pw, pw>> : pw \in Passwords}

\* the account the non-empty email belongs to
Account == "u1"

Total(f) ==
    f[Live("signIn")] + f[Dead("signIn")] + f[Live("signUp")] + f[Dead("signUp")]
    + f[Live("signOut")] + f[Dead("signOut")]

(* ------------------------- forms: actions ----------------------------- *)

\* what a handler of the mounted page needs: the page is rendered and React
\* has flushed the passive effects of its last render
PageReady(pg) ==
    /\ phase = "mounted"
    /\ hpc = "idle"
    /\ ~effectPending /\ ~subPending /\ ~pageEffectPending
    /\ page = pg

\* the handler's run up to its first await, common to the three handlers:
\* err is the validation result ("" when the input passed), clears is TRUE
\* for the forms, which call setError("") first
Begin(op, err, clears) ==
    /\ IF busy
       THEN /\ error' = IF clears THEN "" ELSE error
            /\ UNCHANGED <<busy, inflight>>
       ELSE IF err # ""
       THEN /\ error' = err
            /\ UNCHANGED <<busy, inflight>>
       ELSE /\ Total(inflight) < MaxCalls
            /\ error' = IF clears THEN "" ELSE error
            /\ busy' = TRUE
            /\ inflight' = [inflight EXCEPT ![Live(op)] = @ + 1]
    /\ settled' = NoStep
    /\ effectRan' = FALSE
    /\ emitted' = << >>
    /\ rendered' = FALSE
    /\ applied' = << >>
    /\ UNCHANGED <<fbVars, phase, hookVars, hpc, ctx, subPending, navVars, guardVars,
                   pageView, pageEffectPending>>

\* while a call is pending the fields are disabled and hold what passed
\* validation
HeldInput(email, password, confirmPassword) ==
    busy => email = "a@x.io" /\ password = PwValid /\ confirmPassword = PwValid

\* login page: onSubmit up to the await
LoginSubmit(email, password) ==
    /\ PageReady("login")
    /\ HeldInput(email, password, password)
    /\ submitted' = << [form |-> "login", email |-> email, password |-> password,
                        confirmPassword |-> password, wasBusy |-> busy] >>
    /\ Begin("signIn", LoginValidate(email, password), TRUE)

\* signup page: onSubmit up to the await; the form exists only when rendered
SignupSubmit(email, password, confirmPassword) ==
    /\ PageReady("signup")
    /\ pageView = "Form"
    /\ HeldInput(email, password, confirmPassword)
    /\ submitted' = << [form |-> "signup", email |-> email, password |-> password,
                        confirmPassword |-> confirmPassword, wasBusy |-> busy] >>
    /\ Begin("signUp", SignupValidate(email, password, confirmPassword), TRUE)

\* home page: handleLogout up to the await
LogoutClick ==
    /\ PageReady("home")
    /\ submitted' = << [form |-> "logout", email |-> "", password |-> << >>,
                        confirmPassword |-> << >>, wasBusy |-> busy] >>
    /\ Begin("signOut", "", FALSE)

\* the links of the pages: login's "Sign up", and "Sign in" of the signup form
Links(pg, pv) ==
    IF pg = "login" THEN {SignupPath}
    ELSE IF pg = "signup" /\ pv = "Form" THEN {LoginPath}
    ELSE {}

\* the user follows a link of the mounted page
FollowLink(p) ==
    /\ p \in Links(page, pageView)
    /\ UserNavigate(p)

\* a provider call settles and its handler runs from the await to the end:
\* the push of the try or catch block, the catch block's message, the
\* finally block's reset. The provider has changed its current user before,
\* and notifies its listeners. The state updates of a handler whose page
\* instance is gone have no effect; its router call still runs.
Settle(k, outcome, u) ==
    /\ phase = "mounted"
    /\ hpc = "idle"
    /\ inflight[k] > 0
    /\ outcome \in Outcomes(k.op)
    /\ inflight' = [inflight EXCEPT ![k] = @ - 1]
    /\ LET now == UserAfter(k.op, outcome, u, fbUser)
       IN /\ fbUser' = now
          /\ IF now # fbUser
             THEN /\ Len(notifQ) < MaxQueue
                  /\ notifQ' = Notify(notifQ, listeners, now)
             ELSE notifQ' = notifQ
    /\ LET calls == SettleCalls(k.op, outcome)
       IN /\ emitted' = calls
          /\ pendingNav' = IF calls # << >> THEN calls ELSE pendingNav
    /\ busy' = IF k.alive THEN FALSE ELSE busy
    /\ error' = IF k.alive THEN SettleError(k.op, outcome, error) ELSE error
    /\ settled' = << [op |-> k.op, outcome |-> outcome, alive |-> k.alive] >>
    /\ submitted' = NoStep
    /\ effectRan' = FALSE
    /\ rendered' = FALSE
    /\ applied' = << >>
    /\ UNCHANGED <<listeners, phase, hookVars, hpc, ctx, subPending, history, guardVars,
                   pageView, pageEffectPending>>

\* the application with its forms left alone: sign-ins and sign-outs reach it
\* as the provider's notifications only
Next ==
    \/ MountApp
    \/ FlushPassiveEffects
    \/ SubscribeThrows
    \/ HandlerSetUser
    \/ HandlerSetLoading
    \/ Render
    \/ ApplyNav
    \/ \E p \in Paths : UserNavigate(p)
    \/ UserBack
    \/ \E u \in Users : SignIn(u)
    \/ SignOut
    \/ Refresh
    \/ Unmount

Spec == Init /\ [][Next]_vars

\* the application with its forms in use
FormNext ==
    \/ MountApp
    \/ FlushPassiveEffects
    \/ SubscribeThrows
    \/ HandlerSetUser
    \/ HandlerSetLoading
    \/ Render
    \/ ApplyNav
    \/ \E p \in Paths : FollowLink(p)
    \/ UserBack
    \/ \E i \in LoginInputs : LoginSubmit(i[1], i[2])
    \/ \E i \in SignupInputs : SignupSubmit(i[1], i[2], i[3])
    \/ LogoutClick
    \/ \E k \in CallKinds, o \in {"ok"} \cup Failures : Settle(k, o, Account)
    \/ Unmount

FormSpec == Init /\ [][FormNext]_vars

TypeOK ==
    /\ fbUser \in Users \cup {NoUser}
    /\ listeners \in 0..1
    /\ Len(notifQ) <= MaxQueue
    /\ phase \in {"unmounted", "mounted", "torndown"}
    /\ user \in Users \cup {NoUser}
    /\ loading \in BOOLEAN
    /\ hpc \in {"idle", "afterSetUser"}
    /\ Len(history) \in 1..MaxHist
    /\ Len(pendingNav) <= 1
    /\ view \in {"None", "Loading", "Allowed", "RedirectingPlaceholder"}
    /\ redirectsHere \in 0..MaxCount
    /\ effectRan \in BOOLEAN
    /\ rendered \in BOOLEAN
    /\ Len(emitted) <= 2
    /\ pageView \in {"None", "Content", "Loading", "Redirecting", "Form"}
    /\ pageEffectPending \in BOOLEAN
    /\ busy \in BOOLEAN
    /\ inflight \in [CallKinds -> 0..MaxCalls]
    /\ Total(inflight) <= MaxCalls
    /\ Len(applied) <= 1
    /\ Len(submitted) <= 1
    /\ Len(settled) <= 1
    /\ Len(submitted) + Len(settled) + Len(applied) <= 1


(* ------------------------------ claims -------------------------------- *)

\* the allow list the claims fix: "/", "/login", "/signup"
AllowList == {Root, LoginPath, SignupPath}

\* every value an AuthSnapshot can take
Snapshots == [user : Users \cup {NoUser}, loading : BOOLEAN, isAuthenticated : BOOLEAN]

GuardCalls(calls) == {i \in 1..Len(calls) : calls[i].by = "guard"}
GuardRedirected == GuardCalls(emitted) # {}
ReplaceToRoot == [by |-> "guard", kind |-> "replace", target |-> Root]

\* C1: whenever the guard is mounted, it shows the requested view (Allowed)
\* exactly when isLoading is false and the path is in the allow list or
\* isAuthenticated is true; otherwise it shows one of the two placeholders.
\* So a view outside the allow list is never shown to an unauthenticated
\* user or while loading.
C1_GuardDecision ==
    /\ phase = "mounted" =>
          /\ view \in {"Allowed", "Loading", "RedirectingPlaceholder"}
          /\ (view = "Allowed") <=>
                (~ctx.loading /\ (pathname \in AllowList \/ ctx.isAuthenticated))
          /\ (view = "Allowed" /\ pathname \notin AllowList) =>
                (ctx.isAuthenticated /\ ~ctx.loading)
    /\ \A c \in Snapshots, p \in Paths :
          /\ TemplateRender(c, p) \in {"Allowed", "Loading", "RedirectingPlaceholder"}
          /\ (TemplateRender(c, p) = "Allowed") <=>
                (~c.loading /\ (p \in AllowList \/ c.isAuthenticated))

C1_Witness ==
    /\ phase = "mounted"
    /\ view = "Allowed"
    /\ pathname = HomePath
    /\ ctx.isAuthenticated
    /\ ~ctx.loading

\* C2: in every state where isLoading is true the guard has issued no
\* redirect: the step that led here made no router call on the guard's
\* behalf, none is pending, and none was issued for the current inputs.
C2_NoRedirectWhileLoading ==
    /\ ctx.loading =>
          /\ ~GuardRedirected
          /\ GuardCalls(pendingNav) = {}
          /\ redirectsHere = 0
    /\ \A c \in Snapshots, p \in Paths :
          c.loading => RedirectEffect(EffectDeps(c, p)) = << >>

C2_Witness ==
    /\ phase = "mounted"
    /\ effectRan
    /\ ctx.loading
    /\ pathname = HomePath
    /\ ~ctx.isAuthenticated

C4_PublicAlwaysAllowed ==
    (phase = "mounted" /\ pathname \in AllowList) =>
        /\ view = "Allowed"
        /\ ~GuardRedirected

\* C4 amended: for any path in the allow list the guard shows Allowed,
\* whatever isAuthenticated is, once isLoading is false; while isLoading is
\* true it shows the loading placeholder; in neither case does it issue or
\* hold a redirect for that path.
C4_PublicAllowedOnceLoaded ==
    (phase = "mounted" /\ pathname \in AllowList) =>
        /\ ~ctx.loading => view = "Allowed"
        /\ ctx.loading => view = "Loading"
        /\ ~GuardRedirected
        /\ GuardCalls(pendingNav) = {}
        /\ redirectsHere = 0

C4_Witness ==
    /\ phase = "mounted"
    /\ pathname = LoginPath
    /\ ctx.user \in Users
    /\ ~ctx.loading
    /\ ctx.isAuthenticated
    /\ view = "Allowed"

\* C5: in every snapshot consumers can read, the default one before the
\* provider mounts included, isAuthenticated is true exactly when
\* currentUser is present.
C5_AuthenticatedIffUser ==
    ctx.isAuthenticated <=> (ctx.user # NoUser)

C5_Witness ==
    /\ phase = "mounted"
    /\ ctx.user \in Users
    /\ ctx.isAuthenticated
    /\ fbUser = NoUser


InitialSnapshot == [user |-> NoUser, loading |-> TRUE, isAuthenticated |-> FALSE]

\* the step is the return of the onAuthStateChanged handler
HandlerReturns == hpc = "afterSetUser" /\ hpc' = "idle"

\* C6: the snapshot starts as {none, loading, not authenticated}, also when
\* the provider mounts; every run of the handler of a mounted provider, so
\* the first one, leaves the loading state false; and once loading is false,
\* in the hook state or in the published snapshot, it is never true again.
C6_LoadingEndsOnce ==
    /\ ctx = InitialSnapshot
    /\ loading = TRUE
    /\ [][ /\ (phase = "unmounted" /\ phase' = "mounted") => ctx' = InitialSnapshot
           /\ (HandlerReturns /\ phase = "mounted") => loading' = FALSE
           /\ ~loading => ~loading'
           /\ ~ctx.loading => ~ctx'.loading
           /\ (ctx.loading /\ ~ctx'.loading) => ~loading
         ]_vars

C6_Witness ==
    /\ phase = "mounted"
    /\ ~ctx.loading
    /\ ~loading
    /\ hpc = "afterSetUser"
    /\ user # ctx.user

\* C7: the published snapshot is replaced as a whole. Whenever it changes,
\* the new one holds both writes of a handler run that has returned, never
\* the new user with the old loading flag or the reverse; so no snapshot
\* shows a user while it still says loading.
C7_AtomicSnapshot ==
    [][ /\ ctx' # ctx =>
              /\ hpc' = "idle"
              /\ ctx'.user = user'
              /\ ctx'.loading = loading'
        /\ ctx'.loading => (ctx'.user = NoUser /\ ~ctx'.isAuthenticated)
      ]_vars

C7_Witness ==
    /\ phase = "mounted"
    /\ hpc = "afterSetUser"
    /\ user \in Users
    /\ loading
    /\ ctx = InitialSnapshot

ListenerDiscipline ==
    /\ listeners <= 1
    /\ phase = "unmounted" => listeners = 0
    /\ (phase = "mounted" /\ ~subPending) => listeners = 1
    /\ phase = "torndown" => (listeners = 0 /\ notifQ = << >>)

\* C8: the provider holds at most one listener, exactly one from the run of
\* its subscription effect until teardown, whatever renders happen in
\* between; after teardown none is registered, no notification is in flight
\* to it, and neither the hook state nor the snapshot changes any more.
C8_OneListenerUntilTeardown ==
    /\ ListenerDiscipline
    /\ [][ /\ ListenerDiscipline'
           /\ (rendered' /\ ~subPending) => (listeners' = listeners /\ ~subPending')
           /\ phase = "torndown" =>
                 (phase' = "torndown" /\ UNCHANGED <<user, loading, ctx, listeners>>)
         ]_vars

C8_Witness ==
    /\ phase = "torndown"
    /\ listeners = 0
    /\ ~loading
    /\ user = NoUser
    /\ fbUser \in Users

\* the guard is mounted, its effects have run, and its inputs are: loaded,
\* not authenticated, path outside the allow list
SettledBlocked ==
    /\ phase = "mounted"
    /\ ~effectPending
    /\ ~ctx.loading
    /\ ~ctx.isAuthenticated
    /\ pathname \notin AllowList

\* C9: each time the guard's inputs come to loaded, not authenticated and a
\* path outside the allow list, a redirect to "/" is issued for that state:
\* once the effects have run, one has been issued since the inputs last
\* changed.
C9_LevelTriggered ==
    SettledBlocked => redirectsHere >= 1

SameInputs ==
    /\ phase = "mounted" /\ phase' = "mounted"
    /\ ctx'.loading = ctx.loading
    /\ ctx'.isAuthenticated = ctx.isAuthenticated
    /\ pathname' = pathname

\* C10: a re-render with unchanged isLoading, isAuthenticated and path
\* gives the same view, schedules no effect and issues no redirect; no
\* input state ever gets a second redirect.
C10_RerenderIdempotent ==
    [][ /\ (rendered' /\ SameInputs) =>
              /\ view' = view
              /\ ~effectPending'
              /\ GuardCalls(emitted') = {}
              /\ redirectsHere' = redirectsHere
              /\ pendingNav' = pendingNav
        /\ redirectsHere' <= 1
      ]_vars

C10_Witness ==
    /\ phase = "mounted"
    /\ rendered
    /\ view = "RedirectingPlaceholder"
    /\ redirectsHere = 1
    /\ pendingNav = << ReplaceToRoot >>
    /\ pathname = HomePath

(* ------------------------- claims about the forms --------------------- *)

\* the last step ran a form's onSubmit, and the form had no call pending
Submitted(form) ==
    /\ submitted # << >>
    /\ submitted[1].form = form
    /\ ~submitted[1].wasBusy

\* the last step settled a call of this operation
Settled(op) == settled # << >> /\ settled[1].op = op

\* input the login form must reject: an empty email or password
LoginInvalid(i) == i.email = "" \/ i.password = << >>

\* the password policy: 8 characters, a capital letter, a special character
MeetsPolicy(pw) ==
    /\ Len(pw) >= 8
    /\ \E i \in 1..Len(pw) : pw[i] \in UpperChars
    /\ \E i \in 1..Len(pw) : pw[i] \in SpecialChars

\* input the signup form must reject: an empty field, a confirmation that
\* differs, a password outside the policy
SignupInvalid(i) ==
    \/ i.email = "" \/ i.password = << >> \/ i.confirmPassword = << >>
    \/ i.password # i.confirmPassword
    \/ ~MeetsPolicy(i.password)

\* the last step was a login or signup submission that failed: rejected by
\* validation, or settled with an error
FailedSubmission ==
    \/ Submitted("login") /\ LoginInvalid(submitted[1])
    \/ Submitted("signup") /\ SignupInvalid(submitted[1])
    \/ Settled("signIn") /\ settled[1].outcome # "ok"
    \/ Settled("signUp") /\ settled[1].outcome # "ok"

\* C11: a step in which a login or signup submission fails (validation
\* error, provider rejection, or an error without a code) changes nothing of
\* the provider's user, its notifications, the snapshot the Auth State
\* Provider holds and publishes, the guard's view, the history or the
\* pending navigation, and issues no router call.
C11_FailureStaysLocal ==
    [][FailedSubmission' =>
          /\ UNCHANGED <<fbUser, listeners, notifQ, user, loading, ctx>>
          /\ UNCHANGED <<view, deps, history, pendingNav>>
          /\ emitted' = << >>]_vars

C11_Witness ==
    /\ Settled("signUp")
    /\ settled[1].outcome = "auth/email-already-in-use"
    /\ settled[1].alive
    /\ error # ""
    /\ page = "signup"
    /\ ~ctx.isAuthenticated

\* the last step was a submission that validation must reject
RejectedInput ==
    \/ Submitted("login") /\ LoginInvalid(submitted[1])
    \/ Submitted("signup") /\ SignupInvalid(submitted[1])

\* C12: a login submission with an empty email or password, and a signup
\* submission with an empty field, a confirmation that differs or a password
\* outside the policy, sets an error message and does nothing else: no
\* provider call is added, the in-flight flag stays false, no router call is
\* issued and none becomes pending.
C12_ValidationBeforeProvider ==
    [][RejectedInput' =>
          /\ error' # ""
          /\ inflight' = inflight
          /\ busy' = FALSE
          /\ emitted' = << >>
          /\ UNCHANGED <<pendingNav, history>>]_vars

C12_Witness ==
    /\ Submitted("signup")
    /\ submitted[1].password = PwValid
    /\ submitted[1].confirmPassword = PwNoSpecial
    /\ error = "Passwords do not match"
    /\ inflight = NoCalls

\* the last step settled a rejected signup of a form that is still mounted
SignupRejected ==
    /\ Settled("signUp")
    /\ settled[1].outcome # "ok"
    /\ settled[1].alive

\* C13: after a rejected signup the message depends on the code alone: for
\* each of the four known codes it is that code's own string, different from
\* the strings of the other codes and from the generic message; for every
\* other code and for an error without a code it is "Failed to create
\* account. Please try again."
C13_MessageByCode ==
    SignupRejected =>
        LET code == settled[1].outcome
        IN /\ error = SignupErrorMessage(code)
           /\ code \notin KnownSignupCodes =>
                 error = "Failed to create account. Please try again."
           /\ code \in KnownSignupCodes =>
                 /\ error # "Failed to create account. Please try again."
                 /\ \A other \in KnownSignupCodes \ {code} :
                        error # SignupErrorMessage(other)

C13_Witness ==
    /\ SignupRejected
    /\ settled[1].outcome = "auth/weak-password"
    /\ error = "Password is too weak. Please ensure it meets all requirements."

\* the last step was a signup submission with password "abcdefg1", the same
\* confirmation and an email
SubmittedAbcdefg1 ==
    /\ Submitted("signup")
    /\ submitted[1].email # ""
    /\ submitted[1].password = <<"a", "b", "c", "d", "e", "f", "g", "1">>
    /\ submitted[1].confirmPassword = submitted[1].password

\* C14 as claimed: a signup submission with password "abcdefg1" fails with
\* the special-character message and makes no provider call.
C14_SpecialCharacterMessage ==
    SubmittedAbcdefg1 =>
        /\ error = "Password must contain at least one special character"
        /\ ~busy
        /\ inflight[Live("signUp")] = 0

\* C14, amended: a signup submission with password "abcdefg1" fails with
\* the capital-letter message, because the password has no capital letter
\* either and that check comes first; no provider call is made, the flag
\* stays false and no router call is issued.
C14_CapitalLetterMessage ==
    SubmittedAbcdefg1 =>
        /\ error = "Password must contain at least one capital letter"
        /\ ~busy
        /\ inflight[Live("signUp")] = 0
        /\ emitted = << >>

C14_Witness ==
    /\ SubmittedAbcdefg1
    /\ page = "signup"
    /\ pageView = "Form"
    /\ error # ""

LogoutCalls(calls) == {i \in 1..Len(calls) : calls[i].by = "logout"}

\* C15: the step that settles a signOut call issues exactly one router call,
\* a push to "/", whether the call succeeded or failed, and leaves the
\* in-progress flag of a mounted home page false; no other step issues a
\* router call of the logout handler.
C15_LogoutNavigatesOnce ==
    /\ Settled("signOut") =>
          /\ emitted = << [by |-> "logout", kind |-> "push", target |-> Root] >>
          /\ pendingNav = emitted
          /\ settled[1].alive => ~busy
    /\ LogoutCalls(emitted) # {} => Settled("signOut")

C15_Witness ==
    /\ Settled("signOut")
    /\ settled[1].outcome # "ok"
    /\ settled[1].alive
    /\ page = "home"
    /\ fbUser # NoUser
    /\ Len(emitted) = 1

\* the last step applied the push to "/home" of the login handler, issued
\* after a successful sign-in, and the provider still has the user
ArrivedFromLogin ==
    /\ applied # << >>
    /\ applied[1].by = "login"
    /\ pathname = HomePath
    /\ fbUser # NoUser

\* C16: when the navigation to "/home" issued by the login handler after a
\* successful sign-in is applied, the guard renders "/home" with a snapshot
\* that is authenticated, so it shows the page and schedules no redirect,
\* however the auth notification and the navigation interleave.
C16_NoBounceAfterLogin ==
    ArrivedFromLogin =>
        /\ ctx.isAuthenticated
        /\ view = "Allowed"

InFlight(op) == inflight[Live(op)] + inflight[Dead(op)]

\* C17: for each of the login form, the signup form and the logout button,
\* at most one provider call is in flight at any time.
C17_OneCallInFlight == \A op \in Ops : InFlight(op) <= 1

\* what the flag does ensure: the mounted page instance has a call pending
\* exactly when its flag is set, and never more than one
OneCallPerInstance ==
    /\ inflight[Live("signIn")] + inflight[Live("signUp")] + inflight[Live("signOut")]
          = (IF busy THEN 1 ELSE 0)
    /\ submitted # << >> /\ submitted[1].wasBusy => busy /\ emitted = << >>

SignupEffectCalls(calls) == {i \in 1..Len(calls) : calls[i].by = "signupEffect"}

\* C18: the signup page's effect pushes "/home", and only in a step whose
\* snapshot has loading false and isAuthenticated true; and whenever the
\* page shows the signup form, the snapshot it rendered with has loading
\* false and isAuthenticated false (the form is not shown while the auth
\* state is undetermined or to a signed-in user).
C18_SignupRedirectsWhenDetermined ==
    /\ \A i \in SignupEffectCalls(emitted) :
          /\ emitted[i].kind = "push"
          /\ emitted[i].target = HomePath
          /\ ~ctx.loading
          /\ ctx.isAuthenticated
    /\ pageView = "Form" =>
          /\ page = "signup"
          /\ ~ctx.loading
          /\ ~ctx.isAuthenticated

C18_Witness ==
    /\ SignupEffectCalls(emitted) # {}
    /\ page = "signup"
    /\ pageView = "Redirecting"
    /\ pendingNav = emitted

LoginCalls(calls) == {i \in 1..Len(calls) : calls[i].by = "login"}

\* C19: the step that settles a sign-in call of the login form issues the
\* push to "/home" exactly when the call succeeded; a failure, whatever its
\* reason, issues no router call, and the mounted form then shows
\* "Incorrect email or password" with its flag reset. No other step issues
\* a router call of the login handler, so the navigation never precedes the
\* settlement.
C19_LoginNavigatesIffSuccess ==
    /\ Settled("signIn") =>
          /\ settled[1].outcome = "ok" <=>
                emitted = << [by |-> "login", kind |-> "push", target |-> HomePath] >>
          /\ settled[1].outcome # "ok" =>
                /\ emitted = << >>
                /\ settled[1].alive =>
                      error = "Incorrect email or password" /\ ~busy
    /\ LoginCalls(emitted) # {} => Settled("signIn") /\ settled[1].outcome = "ok"

C19_Witness ==
    /\ Settled("signIn")
    /\ settled[1].outcome = "ok"
    /\ settled[1].alive
    /\ page = "login"
    /\ pendingNav = << [by |-> "login", kind |-> "push", target |-> HomePath] >>
    /\ fbUser = Account

====
